---- MODULE Spec2Model ----
(***************************************************************************)
(* A model of src/textrank.py: TextRank keyword extraction and extractive  *)
(* summarization.  One run of the model is one call of keyword_extraction  *)
(* or of summarize; every step of the call is an action.                   *)
(*                                                                         *)
(* Numbers that the program keeps as floats (co-occurrence weights, cosine *)
(* similarities) are exact rationals <<num, den>> in lowest terms with     *)
(* den > 0.  Indices are zero-based as in Python; TLA+ sequences are       *)
(* one-based, so element i of a Python list s is s[i + 1].                 *)
(*                                                                         *)
(* spaCy (tokens, lemma hashes, the string store), the sentence encoder    *)
(* and networkx.pagerank_numpy are libraries outside the repository: the   *)
(* annotator's and the encoder's outputs are inputs drawn in Init, and the *)
(* scores pagerank_numpy returns are a nondeterministic choice.            *)
(***************************************************************************)
EXTENDS Integers, Sequences, FiniteSets, TLC

VARIABLES mode, pc, doc, n_words, sens, n_sentences,
          nodes, edge_weights, sentence_mats, weight_dict,
          G, pr, top_ranked, ordered_sens, result, error

vars == <<mode, pc, doc, n_words, sens, n_sentences,
          nodes, edge_weights, sentence_mats, weight_dict,
          G, pr, top_ranked, ordered_sens, result, error>>

----------------------------------------------------------------------------
(* Bounds of the model *)

MaxDocLen == 4
MaxSents == 3
MaxK == 3
MaxScore == 1
MaxTail == 2

(* The default window radius of generate_keyword_edge_weights, the one
   construct_lemma_graph calls it with *)
DefaultRadius == 6

(* Token kinds the annotator can produce: lemma hash, part of speech (83
   adjective, 91 noun, 95 proper noun, 99 verb), stop-word flag.  "dog" is a
   noun and a verb with one lemma. *)
Vocab ==
    { [lemma |-> 11, pos |-> 91, is_stop |-> 0],
      [lemma |-> 22, pos |-> 83, is_stop |-> 0],
      [lemma |-> 33, pos |-> 95, is_stop |-> 0],
      [lemma |-> 11, pos |-> 99, is_stop |-> 0],
      [lemma |-> 55, pos |-> 91, is_stop |-> 1] }

(* Documents longer than the default radius, the ones in which
   construct_lemma_graph's windows hold anything, over two token kinds *)
LongVocab ==
    { [lemma |-> 11, pos |-> 91, is_stop |-> 0],
      [lemma |-> 22, pos |-> 83, is_stop |-> 0] }

LongDocs ==
    UNION { [1..l -> LongVocab] :
              l \in (DefaultRadius + 1)..(DefaultRadius + MaxTail) }

(* Sentence texts the segmenter can produce *)
SentenceTexts == {"east", "north", "west", "slope"}

(* Scores pagerank can give a node, in units that only their order matters *)
Scores == 0..MaxScore

----------------------------------------------------------------------------
(* Python and numpy helpers *)

Abs(x) == IF x < 0 THEN -x ELSE x

Min(a, b) == IF a < b THEN a ELSE b

Max(a, b) == IF a > b THEN a ELSE b

RECURSIVE GCD(_, _)
GCD(a, b) == IF b = 0 THEN a ELSE GCD(b, a % b)

(* The rational num/den in lowest terms, den > 0 *)
Rat(num, den) ==
    LET s == IF den < 0 THEN -1 ELSE 1
        g == GCD(Abs(num), Abs(den))
    IN  <<(s * num) \div g, (s * den) \div g>>

Zero == <<0, 1>>

RatAdd(x, y) == Rat(x[1] * y[2] + y[1] * x[2], x[2] * y[2])

RatLess(x, y) == x[1] * y[2] < y[1] * x[2]

(* Python's max([x, y]): the first of the largest *)
RatMax(x, y) == IF RatLess(x, y) THEN y ELSE x

(* s[a:b] for 0 <= a, with b clipped to the length *)
Slice(s, a, b) ==
    LET hi == Min(b, Len(s))
        lo == Min(a, hi)
    IN  [i \in 1..(hi - lo) |-> s[lo + i]]

(* The elements of a set of integers in ascending order *)
RECURSIVE Ascending(_)
Ascending(S) ==
    IF S = {} THEN <<>>
    ELSE LET m == CHOOSE x \in S : \A y \in S : x <= y
         IN  <<m>> \o Ascending(S \ {m})

(* Sum of the rationals f[x] over x in S *)
RECURSIVE RatSum(_, _)
RatSum(f, S) ==
    IF S = {} THEN Zero
    ELSE LET x == CHOOSE y \in S : TRUE
         IN  RatAdd(f[x], RatSum(f, S \ {x}))

Range(s) == { s[i] : i \in 1..Len(s) }

(* All sequences over S of length at most k *)
SeqsUpTo(S, k) == UNION { [1..l -> S] : l \in 0..k }

----------------------------------------------------------------------------
(* networkx.Graph: nodes in insertion order, undirected edges keyed by their
   set of endpoints (a self-loop is keyed by a one-element set), each with
   the weight written last *)

Graph == [nodes |-> <<>>, adj |-> <<>>]

RECURSIVE add_nodes_from(_, _)
add_nodes_from(g, ns) ==
    IF ns = <<>> THEN g
    ELSE LET g1 == IF Head(ns) \in Range(g.nodes) THEN g
                   ELSE [g EXCEPT !.nodes = Append(g.nodes, Head(ns))]
         IN  add_nodes_from(g1, Tail(ns))

add_edge(g, u, v, w) ==
    LET g1 == add_nodes_from(g, <<u, v>>)
        e  == {u, v}
    IN  [g1 EXCEPT !.adj = [x \in (DOMAIN g.adj) \cup {e} |->
                                IF x = e THEN w ELSE g.adj[x]]]

(* The edges are written one after the other, in the order of the list *)
RECURSIVE add_weighted_edges_from(_, _)
add_weighted_edges_from(g, es) ==
    IF es = <<>> THEN g
    ELSE add_weighted_edges_from(
             add_edge(g, Head(es)[1], Head(es)[2], Head(es)[3]), Tail(es))

has_edge(g, u, v) == {u, v} \in DOMAIN g.adj

weight(g, u, v) == g.adj[{u, v}]

----------------------------------------------------------------------------
(* Keyword extraction *)

POS_tags == {83, 91, 95}

(* doc.to_array([LEMMA, POS, IS_STOP]): one row per token *)
to_array(d) == [i \in 1..Len(d) |-> <<d[i].lemma, d[i].pos, d[i].is_stop>>]

(* The unique lemma hashes of the tokens with a part of speech in POS_tags
   that are not stop words, in ascending order (numpy.unique sorts) *)
get_lemma_nodes(doc_arr) ==
    LET tokens_of_POS == { i \in 1..Len(doc_arr) : doc_arr[i][2] \in POS_tags }
        tokens_wo_stopwords == { i \in tokens_of_POS : doc_arr[i][3] = 0 }
    IN  Ascending({ doc_arr[i][1] : i \in tokens_wo_stopwords })

(* inverse_ix.get(lemma, -1) *)
inverse_ix_get(ns, lemma) ==
    IF lemma \in Range(ns)
    THEN (CHOOSE i \in 1..Len(ns) : ns[i] = lemma) - 1
    ELSE -1

(* The window the loop gives the token numbered ix by enumerate(doc[n:]) *)
window_of(d, rad, ix) == Slice(d, Max(0, ix - rad), Min(Len(d), ix + rad))

(* The pairs (ix, window_ix) at which the loops add to
   co_occur_weights[node_ix, node2_ix] *)
additions(ns, d, rad, node_ix, node2_ix) ==
    LET tail == Slice(d, rad, Len(d))
    IN  { c \in (0..(Len(tail) - 1)) \X (0..(2 * rad - 1)) :
            LET ix == c[1]
                window_ix == c[2]
                window == window_of(d, rad, ix)
            IN  /\ window_ix < Len(window)
                /\ inverse_ix_get(ns, tail[ix + 1].lemma) = node_ix
                /\ node_ix # -1
                /\ inverse_ix_get(ns, window[window_ix + 1].lemma) = node2_ix
                /\ node2_ix # -1
                /\ window_ix # rad }

(* The n_nodes x n_nodes matrix of co-occurrence weights: each addition is
   1/abs(window_ix - n) *)
generate_keyword_edge_weights(ns, d, rad) ==
    LET n_nodes == Len(ns)
        ixs == 0..(n_nodes - 1)
    IN  [p \in ixs \X ixs |->
            LET adds == additions(ns, d, rad, p[1], p[2])
            IN  RatSum([c \in adds |-> Rat(1, Abs(c[2] - rad))], adds)]

(* numpy.nonzero: the index pairs of the nonzero entries, row by row *)
RECURSIVE nonzero_from(_, _, _)
nonzero_from(m, size, k) ==
    IF k >= size * size THEN <<>>
    ELSE LET p == <<k \div size, k % size>>
         IN  (IF m[p] # Zero THEN <<p>> ELSE <<>>) \o nonzero_from(m, size, k + 1)

nonzero(m, size) == nonzero_from(m, size, 0)

(* A collapse that adds the two directions instead of taking the larger *)
collapse_sum(x, y) == RatAdd(x, y)

(* The weight construct_lemma_graph gives the edge of a nonzero entry *)
collapse(x, y) == RatMax(x, y)

w_edges_of(ns, m) ==
    LET nz == nonzero(m, Len(ns))
    IN  [k \in 1..Len(nz) |->
            <<ns[nz[k][1] + 1], ns[nz[k][2] + 1],
              collapse(m[<<nz[k][1], nz[k][2]>>], m[<<nz[k][2], nz[k][1]>>])>>]

(* The graph pagerank is calculated on *)
construct_lemma_graph(ns, m) ==
    add_weighted_edges_from(add_nodes_from(Graph, ns), w_edges_of(ns, m))

(* The hashes the string store holds: those of the document's lemmas *)
StringStore == { t.lemma : t \in Vocab }

(* doc.vocab.strings[hash] *)
strings(h) ==
    CASE h = 11 -> "dog"
      [] h = 22 -> "fast"
      [] h = 33 -> "Rex"
      [] h = 55 -> "thing"

----------------------------------------------------------------------------
(* Summarization *)

(* The sentence encoder: one vector per sentence, in the order given; equal
   texts get equal vectors *)
embed(text) ==
    CASE text = "east"  -> <<1, 0>>
      [] text = "north" -> <<0, 1>>
      [] text = "west"  -> <<-1, 0>>
      [] text = "slope" -> <<3, 4>>

get_sentence_nodes(ss) == [i \in 1..Len(ss) |-> embed(ss[i])]

dot(u, v) == u[1] * v[1] + u[2] * v[2]

(* The Euclidean norm of a vector whose norm is an integer *)
norm(u) == CHOOSE r \in 0..(Abs(u[1]) + Abs(u[2])) : r * r = dot(u, u)

(* sklearn's cosine_similarity([u], [v]) *)
cosine_similarity(u, v) == Rat(dot(u, v), norm(u) * norm(v))

(* The key under which the inner loop stores the similarity of sentence ix
   and the sentence numbered jx by enumerate(sentence_vecs[ix+1:]) *)
inner_key(ix, jx) == ix + jx

(* weight_dict: for every ix of sentence_vecs[:-1], a dict from inner_key(ix,
   jx) to the similarity of sentence ix and sentence ix + 1 + jx *)
get_sentence_edge_weights(sentence_vecs) ==
    LET m == Len(sentence_vecs)
    IN  [ix \in 0..(m - 2) |->
            LET rest == Slice(sentence_vecs, ix + 1, m)
                keys == { inner_key(ix, jx) : jx \in 0..(Len(rest) - 1) }
            IN  [key \in keys |->
                    LET jx == CHOOSE j \in 0..(Len(rest) - 1) :
                                  /\ inner_key(ix, j) = key
                                  /\ \A j2 \in 0..(Len(rest) - 1) :
                                         inner_key(ix, j2) = key => j2 <= j
                    IN  cosine_similarity(sentence_vecs[ix + 1], rest[jx + 1])]]

(* The (ix, jx, weight) triples of weight_dict, in the order of the dicts *)
edge_list(wd) ==
    LET inner(ix) == LET ks == Ascending(DOMAIN wd[ix])
                     IN  [k \in 1..Len(ks) |-> <<ix, ks[k], wd[ix][ks[k]]>>]
        F[k \in 0..Cardinality(DOMAIN wd)] ==
            IF k = 0 THEN <<>> ELSE F[k - 1] \o inner(k - 1)
    IN  F[Cardinality(DOMAIN wd)]

(* A graph builder that registers one node too many *)
construct_sentence_graph_extra_node(sentence_vecs, wd) ==
    add_weighted_edges_from(
        add_nodes_from(Graph, [i \in 1..(Len(sentence_vecs) + 1) |-> i - 1]),
        edge_list(wd))

construct_sentence_graph(sentence_vecs, wd) ==
    add_weighted_edges_from(
        add_nodes_from(Graph, [i \in 1..Len(sentence_vecs) |-> i - 1]),
        edge_list(wd))

----------------------------------------------------------------------------
(* Ranking and selection *)

(* What networkx.pagerank_numpy can return for g: a dict with one item per
   node, in the order of the graph's nodes, and the empty dict for the empty
   graph.  The scores are any: the library is outside the repository. *)
pagerank_numpy(g) ==
    { [i \in 1..Len(g.nodes) |-> <<g.nodes[i], sc[i]>>] :
        sc \in [1..Len(g.nodes) -> Scores] }

(* A comparison that lets equal keys change places *)
precedes_or_ties(x, y, col, reverse) ==
    IF reverse THEN x[col] >= y[col] ELSE x[col] <= y[col]

(* x goes strictly before y in the sort on column col *)
precedes(x, y, col, reverse) ==
    IF reverse THEN x[col] > y[col] ELSE x[col] < y[col]

(* Python's sorted(items, key=lambda x: x[col - 1], reverse=reverse): a stable
   sort, also when reversed *)
RECURSIVE sorted(_, _, _)
sorted(items, col, reverse) ==
    IF items = <<>> THEN <<>>
    ELSE LET x    == items[Len(items)]
             done == sorted(SubSeq(items, 1, Len(items) - 1), col, reverse)
             pos  == Cardinality({ i \in 1..Len(done) :
                                     ~precedes(x, done[i], col, reverse) })
         IN  SubSeq(done, 1, pos) \o <<x>> \o SubSeq(done, pos + 1, Len(done))

(* A selection that forgets to cut the list *)
truncate_none(items, k) == items

(* A selection that always keeps the first item *)
truncate_at_least_one(items, k) == Slice(items, 0, Max(k, 1))

(* items[:k] for k >= 0 *)
truncate(items, k) == Slice(items, 0, k)

(* Line 70 and line 124: the k highest-scoring items *)
top_ranked_of(items, k) == truncate(sorted(items, 2, TRUE), k)

(* A summary that keeps the selected items in score order *)
ordered_sens_unsorted(top) == top

(* Line 125: the selected items in document order *)
ordered_sens_of(top) == sorted(top, 1, FALSE)

----------------------------------------------------------------------------
(* The state machine: pc is the place the call has reached *)

Init ==
    /\ mode \in {"keyword", "summary"}
    /\ pc = "start"
    /\ \/ /\ mode = "keyword"
          /\ doc \in SeqsUpTo(Vocab, MaxDocLen) \cup LongDocs
          /\ n_words \in 0..MaxK
          /\ sens = <<>>
          /\ n_sentences = 0
       \/ /\ mode = "summary"
          /\ sens \in SeqsUpTo(SentenceTexts, MaxSents)
          /\ n_sentences \in 0..MaxK
          /\ doc = <<>>
          /\ n_words = 0
    /\ nodes = <<>>
    /\ edge_weights = <<>>
    /\ sentence_mats = <<>>
    /\ weight_dict = <<>>
    /\ G = Graph
    /\ pr = <<>>
    /\ top_ranked = <<>>
    /\ ordered_sens = <<>>
    /\ result = <<>>
    /\ error = "none"

(* construct_lemma_graph, lines 51-52 *)
GetLemmaNodes ==
    /\ mode = "keyword" /\ pc = "start"
    /\ nodes' = get_lemma_nodes(to_array(doc))
    /\ pc' = "nodes"
    /\ UNCHANGED <<mode, doc, n_words, sens, n_sentences, edge_weights,
                   sentence_mats, weight_dict, G, pr, top_ranked,
                   ordered_sens, result, error>>

(* construct_lemma_graph, line 53: the call leaves n at its default *)
GenerateKeywordEdgeWeights ==
    /\ mode = "keyword" /\ pc = "nodes"
    /\ edge_weights' = generate_keyword_edge_weights(nodes, doc, DefaultRadius)
    /\ pc' = "weights"
    /\ UNCHANGED <<mode, doc, n_words, sens, n_sentences, nodes,
                   sentence_mats, weight_dict, G, pr, top_ranked,
                   ordered_sens, result, error>>

(* construct_lemma_graph, lines 55-61 *)
ConstructLemmaGraph ==
    /\ mode = "keyword" /\ pc = "weights"
    /\ G' = construct_lemma_graph(nodes, edge_weights)
    /\ pc' = "graph"
    /\ UNCHANGED <<mode, doc, n_words, sens, n_sentences, nodes,
                   edge_weights, sentence_mats, weight_dict, pr, top_ranked,
                   ordered_sens, result, error>>

(* construct_sentence_graph, line 106 *)
GetSentenceNodes ==
    /\ mode = "summary" /\ pc = "start"
    /\ sentence_mats' = get_sentence_nodes(sens)
    /\ pc' = "nodes"
    /\ UNCHANGED <<mode, doc, n_words, sens, n_sentences, nodes,
                   edge_weights, weight_dict, G, pr, top_ranked,
                   ordered_sens, result, error>>

(* construct_sentence_graph, line 107 *)
GetSentenceEdgeWeights ==
    /\ mode = "summary" /\ pc = "nodes"
    /\ weight_dict' = get_sentence_edge_weights(sentence_mats)
    /\ pc' = "weights"
    /\ UNCHANGED <<mode, doc, n_words, sens, n_sentences, nodes,
                   edge_weights, sentence_mats, G, pr, top_ranked,
                   ordered_sens, result, error>>

(* construct_sentence_graph, lines 108-113 *)
ConstructSentenceGraph ==
    /\ mode = "summary" /\ pc = "weights"
    /\ G' = construct_sentence_graph(sentence_mats, weight_dict)
    /\ pc' = "graph"
    /\ UNCHANGED <<mode, doc, n_words, sens, n_sentences, nodes,
                   edge_weights, sentence_mats, weight_dict, pr, top_ranked,
                   ordered_sens, result, error>>

(* Lines 69 and 123 *)
PageRank ==
    /\ pc = "graph"
    /\ pr' \in pagerank_numpy(G)
    /\ pc' = "ranked"
    /\ UNCHANGED <<mode, doc, n_words, sens, n_sentences, nodes,
                   edge_weights, sentence_mats, weight_dict, G, top_ranked,
                   ordered_sens, result, error>>

(* keyword_extraction, lines 70-71.  error is the exception the call ends
   with, "none" when it returns; the code raises none of its own, so only a
   failed lookup can set it. *)
KeywordExtraction ==
    /\ mode = "keyword" /\ pc = "ranked"
    /\ top_ranked' = top_ranked_of(pr, n_words)
    /\ error' = IF \E i \in 1..Len(top_ranked') : top_ranked'[i][1] \notin StringStore
                THEN "KeyError" ELSE "none"
    /\ result' = IF error' # "none" THEN <<>>
                 ELSE [i \in 1..Len(top_ranked') |-> strings(top_ranked'[i][1])]
    /\ pc' = "done"
    /\ UNCHANGED <<mode, doc, n_words, sens, n_sentences, nodes,
                   edge_weights, sentence_mats, weight_dict, G, pr,
                   ordered_sens>>

(* summarize, lines 124-126 *)
Summarize ==
    /\ mode = "summary" /\ pc = "ranked"
    /\ top_ranked' = top_ranked_of(pr, n_sentences)
    /\ ordered_sens' = ordered_sens_of(top_ranked')
    /\ error' = IF \E i \in 1..Len(ordered_sens') :
                        ordered_sens'[i][1] \notin 0..(Len(sens) - 1)
                THEN "IndexError" ELSE "none"
    /\ result' = IF error' # "none" THEN <<>>
                 ELSE [i \in 1..Len(ordered_sens') |-> sens[ordered_sens'[i][1] + 1]]
    /\ pc' = "done"
    /\ UNCHANGED <<mode, doc, n_words, sens, n_sentences, nodes,
                   edge_weights, sentence_mats, weight_dict, G, pr>>

Next ==
    \/ GetLemmaNodes
    \/ GenerateKeywordEdgeWeights
    \/ ConstructLemmaGraph
    \/ GetSentenceNodes
    \/ GetSentenceEdgeWeights
    \/ ConstructSentenceGraph
    \/ PageRank
    \/ KeywordExtraction
    \/ Summarize

Spec == Init /\ [][Next]_vars

----------------------------------------------------------------------------
(* Properties *)

Built == pc \in {"graph", "ranked", "done"}

K == IF mode = "keyword" THEN n_words ELSE n_sentences

EmptyInput == IF mode = "keyword" THEN doc = <<>> ELSE sens = <<>>

Occurrences(lemma) == { i \in 1..Len(doc) : doc[i].lemma = lemma }

(* u is ranked before v by the score map: a higher score, or the same score
   and a smaller node identifier *)
Beats(u, v) == u[2] > v[2] \/ (u[2] = v[2] /\ u[1] < v[1])

(* The nodes of the k best items of the score map *)
TopK(items, k) ==
    { items[i][1] : i \in { j \in 1..Len(items) :
          Cardinality({ h \in 1..Len(items) : Beats(items[h], items[j]) }) < k } }

NodesOf(items) == { items[i][1] : i \in 1..Len(items) }

Reverse(sq) == [i \in 1..Len(sq) |-> sq[Len(sq) + 1 - i]]

(* C1: two distinct candidate lemmas that each occur once, at token distance
   d, are joined by an edge of weight 1/d when d <= n and by no edge when
   d > n, wherever the two tokens sit and however short the document is
   (n is the default radius, the one the graph is built with). *)
C1_WindowWeights ==
    (mode = "keyword" /\ Built) =>
        \A p, q \in 1..Len(doc) :
            LET a == doc[p].lemma
                b == doc[q].lemma
                d == q - p
            IN  ( /\ p < q
                  /\ a # b
                  /\ a \in Range(nodes) /\ b \in Range(nodes)
                  /\ Cardinality(Occurrences(a)) = 1
                  /\ Cardinality(Occurrences(b)) = 1 )
                => IF d <= DefaultRadius
                   THEN has_edge(G, a, b) /\ weight(G, a, b) = Rat(1, d)
                   ELSE ~has_edge(G, a, b)

(* C2: the edges of the sentence graph are exactly the pairs (i, j) with
   0 <= i < j < m, and edge (i, j) carries the cosine similarity of
   embeddings i and j. *)
C2_SentenceEdges ==
    (mode = "summary" /\ Built) =>
        LET m == Len(sentence_mats)
        IN  /\ DOMAIN G.adj = { {i, j} : i, j \in 0..(m - 1) } \ { {i} : i \in 0..(m - 1) }
            /\ \A i, j \in 0..(m - 1) :
                   (i < j /\ has_edge(G, i, j)) =>
                       weight(G, i, j) =
                           cosine_similarity(sentence_mats[i + 1], sentence_mats[j + 1])

(* C3: neither graph has an edge from a node to itself. *)
C3_NoSelfLoops ==
    Built => \A e \in DOMAIN G.adj : Cardinality(e) = 2

(* C4: in a summary with K >= 1 the selected nodes are exactly the K
   highest-scoring sentence indices (ties to the smaller index), output in
   strictly ascending index, and the sentences returned are theirs. *)
C4_PositionalTopK ==
    (mode = "summary" /\ pc = "done" /\ n_sentences >= 1) =>
        /\ NodesOf(ordered_sens) = TopK(pr, n_sentences)
        /\ \A i, j \in 1..Len(ordered_sens) :
               i < j => ordered_sens[i][1] < ordered_sens[j][1]
        /\ result = [i \in 1..Len(ordered_sens) |-> sens[ordered_sens[i][1] + 1]]

(* A summary of two of at least three sentences whose first selected
   sentence scores less than the second *)
C4_Witness ==
    /\ mode = "summary" /\ pc = "done"
    /\ n_sentences = 2 /\ Len(pr) >= 3
    /\ Len(ordered_sens) = 2
    /\ ordered_sens[1][2] < ordered_sens[2][2]

(* C5: keywords with K >= 1 come out by non-increasing score, equal scores
   by ascending node identifier, so the output is a function of the score
   map. *)
C5_RankedOrder ==
    (mode = "keyword" /\ pc = "done" /\ n_words >= 1) =>
        /\ \A i, j \in 1..Len(top_ranked) :
               i < j => Beats(top_ranked[i], top_ranked[j])
        /\ result = [i \in 1..Len(top_ranked) |-> strings(top_ranked[i][1])]

(* Three keywords, the first two tied and ahead of the third, in an order
   that is not the order of the score map *)
C5_Witness ==
    /\ mode = "keyword" /\ pc = "done"
    /\ Len(top_ranked) = 3
    /\ top_ranked[1][2] = top_ranked[2][2]
    /\ top_ranked[2][2] > top_ranked[3][2]
    /\ top_ranked # pr

(* C6: with K >= 1 either mode returns exactly min(K, |nodes|) items, no node
   twice, and a K above the node count raises nothing. *)
C6_LengthAndDistinct ==
    (pc = "done" /\ K >= 1) =>
        LET chosen == IF mode = "keyword" THEN top_ranked ELSE ordered_sens
        IN  /\ error = "none"
            /\ Len(result) = Min(K, Len(G.nodes))
            /\ Len(chosen) = Len(result)
            /\ Cardinality(NodesOf(chosen)) = Len(chosen)

(* A keyword request for more words than there are nodes *)
C6_Witness ==
    /\ mode = "keyword" /\ pc = "done"
    /\ Len(G.nodes) >= 2
    /\ n_words > Len(G.nodes)
    /\ Len(result) = Len(G.nodes)

(* C7 as stated: a request with K = 0 ends with InvalidKError.  Stated for
   requests whose input is not empty, which C8 is about. *)
C7_InvalidKError ==
    (pc = "done" /\ K = 0 /\ ~EmptyInput) => error = "InvalidKError"

(* C7 as amended: a request with K = 0 raises nothing and returns the empty
   sequence, whatever was ranked. *)
C7_ZeroKReturnsEmpty ==
    (pc = "done" /\ K = 0) => (error = "none" /\ result = <<>>)

(* A request with K = 0 over a score map of several nodes *)
C7_Witness ==
    /\ pc = "done" /\ K = 0
    /\ Len(pr) >= 2
    /\ result = <<>>

(* C8 as stated: a request with zero tokens or zero sentences ends with
   EmptyInputError and builds no graph. *)
C8_EmptyInputError ==
    (pc = "done" /\ EmptyInput) => error = "EmptyInputError"

(* C8 as amended: a request with zero tokens or zero sentences raises nothing:
   the empty graph is built, ranked to the empty score map, and the empty
   sequence is returned. *)
C8_EmptyInputReturnsEmpty ==
    EmptyInput =>
        /\ error = "none"
        /\ Built => G = Graph
        /\ pc \in {"ranked", "done"} => pr = <<>>
        /\ pc = "done" => result = <<>>

(* A summary of zero sentences with K >= 1 that has returned *)
C8_Witness ==
    /\ mode = "summary" /\ sens = <<>>
    /\ n_sentences >= 1
    /\ pc = "done"
    /\ result = <<>>

(* C10: two distinct nodes are joined if and only if the larger of their two
   accumulators is positive, the edge carries exactly that maximum, and the
   order in which the entries are written does not matter: entries for the
   same pair carry the same weight, and writing them in reverse gives the
   same graph. *)
C10_MaxCollapse ==
    (mode = "keyword" /\ Built) =>
        LET ixs == 0..(Len(nodes) - 1)
            es  == w_edges_of(nodes, edge_weights)
        IN  /\ \A i, j \in ixs :
                   i # j =>
                       LET a  == nodes[i + 1]
                           b  == nodes[j + 1]
                           mx == RatMax(edge_weights[<<i, j>>], edge_weights[<<j, i>>])
                       IN  /\ has_edge(G, a, b) <=> RatLess(Zero, mx)
                           /\ has_edge(G, a, b) => weight(G, a, b) = mx
            /\ \A k1, k2 \in 1..Len(es) :
                   {es[k1][1], es[k1][2]} = {es[k2][1], es[k2][2]}
                       => es[k1][3] = es[k2][3]
            /\ add_weighted_edges_from(add_nodes_from(Graph, nodes), Reverse(es)) = G

(* A lemma graph built with the default radius in which the two accumulators
   of a pair are both positive and differ *)
C10_Witness ==
    /\ mode = "keyword" /\ Built
    /\ Len(doc) > DefaultRadius
    /\ \E i, j \in 0..(Len(nodes) - 1) :
           /\ i # j
           /\ RatLess(Zero, edge_weights[<<i, j>>])
           /\ RatLess(edge_weights[<<i, j>>], edge_weights[<<j, i>>])
           /\ weight(G, nodes[i + 1], nodes[j + 1]) = edge_weights[<<j, i>>]

====
